---- MODULE Spec2Model ----
(***************************************************************************)
(* A model of the extraction / normalisation core of src/main.py:          *)
(*   extract_latest, safe_extract, calculate_trends, label_source,         *)
(*   analyze_company (with its inner get_val) and the peer comparison of   *)
(*   generate_brief / generate_prompt / generate_narrative.                *)
(*                                                                         *)
(* Numbers.  A cell of a statement table is a float; it is modelled as an  *)
(* integer number of thousandths ("mills") or as NaN.  Every value that    *)
(* the program keeps after extract_latest has at most two decimals and is  *)
(* modelled as an integer number of hundredths; a percentage 40.0 is 4000  *)
(* and an amount 500 is 50000.  round(x, 2) of a quotient is computed on   *)
(* the exact rational (round half to even).                                *)
(***************************************************************************)
EXTENDS Integers, Sequences, FiniteSets, TLC

VARIABLES
    op,          \* the operation that produced the current state
    df,          \* Resolve: the statement table handed to the resolver
    key,         \* Resolve: the concept / line item asked for;
                 \* Build: the entry that analyze_company wrote last
    result,      \* Resolve: what the resolver returned
    feed,        \* Analyze: what yfinance serves for the ticker
    summary,     \* Analyze: the outcome of analyze_company
    yahoo,       \* Compare: ticker -> what yfinance serves for it
    request,     \* Compare: the request handled
    main_summary,   \* Compare: analyze_company's outcome for the ticker
    peer_summaries, \* Compare: analyze_company's outcome for each peer
    response,    \* Compare, Gate: the outcome of the endpoint
    uploads,     \* Gate: the names of the files in the uploads folder
    API_KEY      \* Gate: the key the process was configured with

vars == <<op, df, key, result, feed, summary, yahoo, request, main_summary,
          peer_summaries, response, uploads, API_KEY>>

(***************************************************************************)
(* Bounds                                                                  *)
(***************************************************************************)
\* periods (columns) of a statement table row
MaxPeriods == 2
\* entries of the peers parameter of a request
MaxPeers == 2

(***************************************************************************)
(* Python values                                                           *)
(***************************************************************************)
None == [k |-> "None"]
Num(c) == [k |-> "num", v |-> c]
NaNValue == [k |-> "nan"]
InfValue == [k |-> "inf"]
NegInfValue == [k |-> "-inf"]

\* a table cell: NaN or a float given in mills
NaN == [nan |-> TRUE]
Cell(m) == [nan |-> FALSE, m |-> m]

\* a str
Str(s) == [k |-> "str", v |-> s]

\* bool(x): None, 0 and the empty string are falsy, every other number (nan
\* and inf too) and string is truthy
Truthy(x) ==
    /\ x.k # "None"
    /\ ~(x.k = "num" /\ x.v = 0)
    /\ ~(x.k = "str" /\ x.v = "")

\* x or y
PyOr(x, y) == IF Truthy(x) THEN x ELSE y

\* round(n / d) for d # 0, on the exact quotient, ties to the even neighbour
RoundDiv(n, d) ==
    LET nn == IF d < 0 THEN -n ELSE n
        dd == IF d < 0 THEN -d ELSE d
        q  == nn \div dd
        r  == nn % dd
    IN  IF 2 * r < dd THEN q
        ELSE IF 2 * r > dd THEN q + 1
        ELSE IF q % 2 = 0 THEN q ELSE q + 1

(***************************************************************************)
(* What yfinance serves when it fails, and the values of the variables     *)
(* that an operation has not set yet.                                      *)
(***************************************************************************)
\* yfinance raised while the tables were fetched
FailedFeed == [ok |-> FALSE]

NotRun == [raised |-> FALSE, value |-> << >>]
NoRequest == [endpoint |-> "none"]
NoResponse == [status |-> 0]

\* os.environ.get("API_KEY", "supersecretkey") with the variable unset
DefaultKey == "supersecretkey"

(***************************************************************************)
(* Statement tables: a DataFrame is its index in order, each row a label   *)
(* and the cells of its periods, most recent first.                        *)
(***************************************************************************)
EmptyFrame == << >>

Index(frame) == {frame[i].label : i \in DOMAIN frame}

\* df.loc[label] for a label of the index
Loc(frame, label) ==
    frame[CHOOSE i \in DOMAIN frame : frame[i].label = label].cells

\* series.dropna()
RECURSIVE dropna(_)
dropna(series) ==
    IF series = << >> THEN << >>
    ELSE IF Head(series).nan THEN dropna(Tail(series))
    ELSE <<Head(series)>> \o dropna(Tail(series))

\* str.lower() on the labels that occur in the alias table and in the tables
lower(s) ==
    CASE s = "Total Revenue" -> "total revenue"
      [] s = "Revenues" -> "revenues"
      [] s = "Net Sales" -> "net sales"
      [] s = "Sales" -> "sales"
      [] s = "Gross Profit" -> "gross profit"
      [] s = "Gross Income" -> "gross income"
      [] s = "Selling General Administrative" -> "selling general administrative"
      [] s = "Operating Expenses" -> "operating expenses"
      [] s = "SG&A Expense" -> "sg&a expense"
      [] s = "Selling & Admin" -> "selling & admin"
      [] s = "Selling and Admin" -> "selling and admin"
      [] s = "Selling, general and administrative expenses"
            -> "selling, general and administrative expenses"
      [] s = "Net Income" -> "net income"
      [] s = "Net Earnings" -> "net earnings"
      [] s = "Net Profit" -> "net profit"
      [] s = "Income Available to Common Stockholders"
            -> "income available to common stockholders"
      [] s = "Cash" -> "cash"
      [] s = "CASH" -> "cash"
      [] s = "Cash and Cash Equivalents" -> "cash and cash equivalents"
      [] s = "Cash & Equivalents" -> "cash & equivalents"
      [] s = "Long Term Debt" -> "long term debt"
      [] s = "Total Debt" -> "total debt"
      [] s = "TOTAL DEBT" -> "total debt"
      [] s = "Total Liabilities" -> "total liabilities"
      [] s = "Total Stockholder Equity" -> "total stockholder equity"
      [] s = "Total Equity" -> "total equity"
      [] s = "Shareholder Equity" -> "shareholder equity"
      [] s = "Total Cash From Operating Activities"
            -> "total cash from operating activities"
      [] s = "Net Cash Provided by Operating Activities"
            -> "net cash provided by operating activities"
      [] s = "Capital Expenditures" -> "capital expenditures"
      [] s = "Purchase of Property and Equipment"
            -> "purchase of property and equipment"
      [] s = "Repurchase Of Stock" -> "repurchase of stock"
      [] s = "Share Repurchase" -> "share repurchase"
      [] s = "Treasury Stock Purchased" -> "treasury stock purchased"
      [] OTHER -> s

(***************************************************************************)
(* The alias table                                                         *)
(***************************************************************************)
FINANCIAL_LABEL_ALIASES ==
    ("Revenue" :> <<"Total Revenue", "Revenues", "Net Sales", "Sales">>)
 @@ ("Gross Profit" :> <<"Gross Profit", "Gross Income">>)
 @@ ("SG&A" :> <<"Selling General Administrative", "Operating Expenses",
                 "SG&A Expense", "Selling & Admin", "Selling and Admin",
                 "Selling, general and administrative expenses">>)
 @@ ("Net Income" :> <<"Net Income", "Net Earnings", "Net Profit",
                       "Income Available to Common Stockholders">>)
 @@ ("Cash" :> <<"Cash", "Cash and Cash Equivalents", "Cash & Equivalents">>)
 @@ ("Total Debt" :> <<"Long Term Debt", "Total Debt", "Total Liabilities">>)
 @@ ("Equity" :> <<"Total Stockholder Equity", "Total Equity",
                   "Shareholder Equity">>)
 @@ ("Operating Cash Flow" :> <<"Total Cash From Operating Activities",
                                "Net Cash Provided by Operating Activities">>)
 @@ ("CapEx" :> <<"Capital Expenditures", "Purchase of Property and Equipment">>)
 @@ ("Buybacks" :> <<"Repurchase Of Stock", "Share Repurchase",
                     "Treasury Stock Purchased">>)

\* FINANCIAL_LABEL_ALIASES.get(key, [key])
AliasesOf(k) ==
    IF k \in DOMAIN FINANCIAL_LABEL_ALIASES THEN FINANCIAL_LABEL_ALIASES[k]
    ELSE <<k>>

(***************************************************************************)
(* extract_latest, safe_extract                                            *)
(***************************************************************************)
\* int(value) if float(value).is_integer() else round(float(value), 2)
ToNumber(m) == IF m % 1000 = 0 THEN Num((m \div 1000) * 100)
               ELSE Num(RoundDiv(m, 10))

\* the first non-NaN cell of the row; the IndexError of an all-NaN row is
\* caught and the fallback (None) returned
extract_latest(series) ==
    LET values == dropna(series)
    IN  IF values = << >> THEN None ELSE ToNumber(Head(values).m)

\* {i.lower(): i for i in df.index}: a later label of the index replaces an
\* earlier one with the same lower-cased form
normalized_index(frame) ==
    [l \in {lower(frame[i].label) : i \in DOMAIN frame} |->
        LET last == CHOOSE i \in DOMAIN frame :
                       /\ lower(frame[i].label) = l
                       /\ \A j \in DOMAIN frame :
                            lower(frame[j].label) = l => j <= i
        IN  frame[last].label]

\* a resolver that lets a later alias override an earlier one
RECURSIVE LastHit(_, _, _)
LastHit(labels, present, i) ==
    IF i > Len(labels) THEN 0
    ELSE LET later == LastHit(labels, present, i + 1)
         IN  IF later # 0 THEN later
             ELSE IF labels[i] \in present THEN i ELSE 0

\* the position in labels of the first label found in the set present,
\* 0 when none is
RECURSIVE FirstHit(_, _, _)
FirstHit(labels, present, i) ==
    IF i > Len(labels) THEN 0
    ELSE IF labels[i] \in present THEN i
    ELSE FirstHit(labels, present, i + 1)

safe_extract(frame, k) ==
    LET labels == AliasesOf(k)
        norm   == normalized_index(frame)
        lowers == [i \in DOMAIN labels |-> lower(labels[i])]
        hit    == FirstHit(lowers, DOMAIN norm, 1)
    IN  IF hit = 0 THEN None
        ELSE extract_latest(Loc(frame, norm[lowers[hit]]))

(***************************************************************************)
(* Exact arithmetic for the fractional powers.  A natural too large for a  *)
(* machine integer is the sequence of its base-100 digits, most            *)
(* significant first.                                                      *)
(***************************************************************************)
RECURSIVE DigitsOf(_)
DigitsOf(x) == IF x < 100 THEN <<x>> ELSE DigitsOf(x \div 100) \o <<x % 100>>

\* the digits of floor(digits / d), from digit i on, rem carried in
RECURSIVE LongDiv(_, _, _, _)
LongDiv(digits, i, d, rem) ==
    IF i > Len(digits) THEN << >>
    ELSE LET cur == rem * 100 + digits[i]
         IN  <<cur \div d>> \o LongDiv(digits, i + 1, d, cur % d)

\* floor(digits / d ^ times)
RECURSIVE DivideBy(_, _, _)
DivideBy(digits, d, times) ==
    IF times = 0 THEN digits
    ELSE DivideBy(LongDiv(digits, 1, d, 0), d, times - 1)

\* whether the number is at least a, for a below ten million
RECURSIVE AtLeast(_, _, _, _)
AtLeast(digits, i, acc, a) ==
    IF acc >= a THEN TRUE
    ELSE IF i > Len(digits) THEN FALSE
    ELSE AtLeast(digits, i + 1, acc * 100 + digits[i], a)

\* floor(num * 20000^n / den) = floor(num * 2^n * 100^(2n) / den)
RECURSIVE Doubled(_, _)
Doubled(x, times) == IF times = 0 THEN x ELSE Doubled(2 * x, times - 1)

Scaled(num, den, n) ==
    LongDiv(DigitsOf(Doubled(num, n)) \o [i \in 1..(2 * n) |-> 0], 1, den, 0)

\* (a / 20000)^n <= num / den, given scaled = Scaled(num, den, n):
\* a^n <= scaled, that is a <= floor(scaled / a^(n-1))
RootAtMost(a, scaled, n) ==
    a = 0 \/ AtLeast(DivideBy(scaled, a, n - 1), 1, 0, a)

RECURSIVE RootGrow(_, _, _)
RootGrow(hi, scaled, n) ==
    IF RootAtMost(hi, scaled, n) THEN RootGrow(2 * hi, scaled, n) ELSE hi

\* the largest a in lo .. hi - 1 with RootAtMost(a, ...), given that lo has it
RECURSIVE RootSearch(_, _, _, _)
RootSearch(lo, hi, scaled, n) ==
    IF hi - lo <= 1 THEN lo
    ELSE LET mid == (lo + hi) \div 2
         IN  IF RootAtMost(mid, scaled, n)
             THEN RootSearch(mid, hi, scaled, n)
             ELSE RootSearch(lo, mid, scaled, n)

\* (num / den) ** (1 / n), for num, den > 0, as the nearest multiple of 0.0001
Root(num, den, n) ==
    LET scaled == Scaled(num, den, n)
        a      == RootSearch(0, RootGrow(20000, scaled, n), scaled, n)
    IN  (a + 1) \div 2

(***************************************************************************)
(* calculate_trends                                                        *)
(***************************************************************************)
\* round(((first / last) ** (1 / steps) - 1) * 100, 2) on numpy floats, which
\* divide by zero to inf or nan and take a fractional power of a negative
\* number to nan, without raising
cagr(first, last, steps) ==
    IF last = 0
    THEN IF first = 0 THEN NaNValue
         ELSE IF first > 0 \/ steps > 1 THEN InfValue
         ELSE NegInfValue
    ELSE IF first = 0 THEN Num(-10000)
    ELSE IF (first > 0) = (last > 0)
    THEN Num(Root(IF first > 0 THEN first ELSE -first,
                  IF last > 0 THEN last ELSE -last, steps) - 10000)
    ELSE IF steps = 1
    THEN Num(-Root(IF first > 0 THEN first ELSE -first,
                   IF last > 0 THEN last ELSE -last, 1) - 10000)
    ELSE NaNValue

calculate_trends(frame, line_item) ==
    LET aliases == AliasesOf(line_item)
        hit     == FirstHit(aliases, Index(frame), 1)
        values  == IF hit = 0 THEN << >> ELSE dropna(Loc(frame, aliases[hit]))
    IN  IF hit = 0 THEN None
        ELSE IF Len(values) < 2 THEN None
        ELSE cagr(values[1].m, values[Len(values)].m, Len(values) - 1)

(***************************************************************************)
(* label_source, analyze_company                                           *)
(***************************************************************************)
\* a label_source that keeps the given label for a missing value
label_source_unmarked(value, source) == [value |-> value, source |-> source]

label_source(value, source) ==
    [value |-> value, source |-> IF value # None THEN source ELSE "Missing"]

\* dict.get(name, default)
Get(dict, name, default) == IF name \in DOMAIN dict THEN dict[name] ELSE default

\* str.upper() on the tickers of the model
upper(s) ==
    CASE s = "aaa" -> "AAA"
      [] s = "bbb" -> "BBB"
      [] OTHER -> s

\* an operation that raised (ZeroDivisionError, TypeError, KeyError)
Raise == [k |-> "raise"]

\* a + b, a - b
Plus(a, b) == IF a.k = "num" /\ b.k = "num" THEN Num(a.v + b.v) ELSE Raise
Minus(a, b) == IF a.k = "num" /\ b.k = "num" THEN Num(a.v - b.v) ELSE Raise

\* round(a / b * 100, 2)
Percent(a, b) ==
    IF a.k # "num" \/ b.k # "num" THEN Raise
    ELSE IF b.v = 0 THEN Raise
    ELSE Num(RoundDiv(a.v * 10000, b.v))

\* round(a / b, 2)
Quotient(a, b) ==
    IF a.k # "num" \/ b.k # "num" THEN Raise
    ELSE IF b.v = 0 THEN Raise
    ELSE Num(RoundDiv(a.v * 100, b.v))

\* a guard that takes only None for missing
BothNotNone(a, b) == a # None /\ b # None

\* the guard "a and b" of a conditional expression
BothTruthy(a, b) == Truthy(a) /\ Truthy(b)

\* no fallback label given
NoLabel == ""

\* the inner get_val of analyze_company
get_val(frame, label, fallback_label) ==
    IF label \in Index(frame) THEN extract_latest(Loc(frame, label))
    ELSE IF fallback_label # NoLabel /\ fallback_label \in Index(frame)
         THEN extract_latest(Loc(frame, fallback_label))
    ELSE None

hold_period == 3

\* one row of the IRR table; a negative exit value makes the power complex,
\* and round() of a complex number raises
irr_row(multiple, fcf, entry_ev) ==
    LET exit_ev == multiple * fcf
    IN  IF entry_ev > 0 /\ exit_ev < 0 THEN Raise
        ELSE [multiple |-> multiple,
              irr |-> IF entry_ev > 0 /\ exit_ev # entry_ev
                      THEN Num(Root(exit_ev, entry_ev, hold_period) - 10000)
                      ELSE None]

\* the try block that adds the IRR table: the dict of the keys it sets
irr_entry(market_cap, fcf, debt, cash) ==
    IF Truthy(market_cap) /\ Truthy(fcf) /\ fcf # Num(0)
    THEN LET entry_ev == market_cap.v + PyOr(debt, Num(0)).v - PyOr(cash, Num(0)).v
             rows     == [i \in 1..5 |-> irr_row(7 + i, fcf.v, entry_ev)]
         IN  IF \E i \in 1..5 : rows[i] = Raise
             THEN "IRR Table" :> [error |-> "Error calculating IRR"]
             ELSE "IRR Table" :> [rows |-> rows]
    ELSE << >>

\* analyze_company(ticker), given what yfinance serves for the ticker:
\* [raised |-> TRUE] or [raised |-> FALSE, value |-> the dict returned]
analyze_company(ticker, src) ==
    IF ~src.ok
    THEN [raised |-> FALSE, value |-> "error" :> "Yahoo Finance failed"]
    ELSE
    LET info == src.info
        fin  == src.financials
        bal  == src.balance_sheet
        cf   == src.cashflow
        qbal == src.quarterly_balance_sheet
        qcf  == src.quarterly_cashflow
        name == Get(info, "longName", ticker)
        rev  == get_val(fin, "Total Revenue", NoLabel)
        gp   == get_val(fin, "Gross Profit", NoLabel)
        sga  == get_val(fin, "Selling General Administrative", "Operating Expenses")
        ni   == get_val(fin, "Net Income", NoLabel)
        gm   == IF BothTruthy(gp, rev) THEN Percent(gp, rev) ELSE None
        nim  == IF BothTruthy(ni, rev) THEN Percent(ni, rev) ELSE None
        sgap == IF BothTruthy(sga, rev) THEN Percent(sga, rev) ELSE None
        cash == PyOr(get_val(bal, "Cash", NoLabel), get_val(qbal, "Cash", NoLabel))
        debt == PyOr(get_val(bal, "Long Term Debt", "Total Debt"),
                     get_val(qbal, "Long Term Debt", "Total Debt"))
        equity == PyOr(get_val(bal, "Total Stockholder Equity", NoLabel),
                       get_val(qbal, "Total Stockholder Equity", NoLabel))
        netdebt == IF BothTruthy(debt, cash) THEN Minus(debt, cash) ELSE None
        dte  == IF BothTruthy(debt, equity) THEN Quotient(debt, equity) ELSE None
        ocf  == PyOr(get_val(cf, "Total Cash From Operating Activities", NoLabel),
                     get_val(qcf, "Total Cash From Operating Activities", NoLabel))
        capex == PyOr(get_val(cf, "Capital Expenditures", NoLabel),
                      get_val(qcf, "Capital Expenditures", NoLabel))
        buybacks == PyOr(get_val(cf, "Repurchase Of Stock", NoLabel),
                         get_val(qcf, "Repurchase Of Stock", NoLabel))
        fcf  == IF BothTruthy(ocf, capex) THEN Plus(ocf, capex) ELSE None
        fcfm == IF BothTruthy(fcf, rev) THEN Percent(fcf, rev) ELSE None
        market_cap == Get(info, "marketCap", None)
    IN  IF Raise \in {gm, nim, sgap, netdebt, dte, fcf, fcfm}
        THEN [raised |-> TRUE]
        ELSE [raised |-> FALSE, value |->
               irr_entry(market_cap, fcf, debt, cash)
            @@ ("Company" :> name)
            @@ ("Ticker" :> upper(ticker))
            @@ ("Revenue" :> label_source(rev, "Yahoo Finance"))
            @@ ("Gross Profit" :> label_source(gp, "Yahoo Finance"))
            @@ ("SG&A" :> label_source(sga, "Estimated"))
            @@ ("Net Income" :> label_source(ni, "Yahoo Finance"))
            @@ ("Gross Margin (%)" :> label_source(gm, "Calculated"))
            @@ ("Net Income Margin (%)" :> label_source(nim, "Calculated"))
            @@ ("SG&A as % of Revenue" :> label_source(sgap, "Calculated"))
            @@ ("Cash" :> label_source(cash, "Yahoo Finance"))
            @@ ("Total Debt" :> label_source(debt, "Yahoo Finance"))
            @@ ("Net Debt" :> label_source(netdebt, "Calculated"))
            @@ ("Debt-to-Equity Ratio" :> label_source(dte, "Calculated"))
            @@ ("Operating Cash Flow" :> label_source(ocf, "Estimated"))
            @@ ("CapEx" :> label_source(capex, "Estimated"))
            @@ ("Share Buybacks" :> label_source(buybacks, "Estimated"))
            @@ ("Free Cash Flow" :> label_source(fcf, "Calculated"))
            @@ ("FCF Margin (%)" :> label_source(fcfm, "Calculated"))
            @@ ("Revenue CAGR (%)" :>
                   label_source(calculate_trends(fin, "Total Revenue"), "Calculated"))
            @@ ("Net Income CAGR (%)" :>
                   label_source(calculate_trends(fin, "Net Income"), "Calculated"))
            @@ ("SG&A CAGR (%)" :>
                   label_source(calculate_trends(fin, "Selling General Administrative"),
                                "Calculated"))]

(***************************************************************************)
(* The peer comparison of generate_brief, generate_prompt and              *)
(* generate_narrative.  A request carries the ticker parameter, the peers  *)
(* parameter as its comma-separated pieces, and what                       *)
(* parse_uploaded_content finds in the uploads folder.  An insight is the  *)
(* record of what its text shows, with the position of the peer in         *)
(* peer_list kept beside it.                                               *)
(***************************************************************************)
\* str.strip() on the pieces of the model
strip(s) ==
    CASE s = " " -> ""
      [] s = " bbb" -> "bbb"
      [] OTHER -> s

\* [p.strip().upper() for p in peers.split(",") if p.strip()]
RECURSIVE peer_list(_)
peer_list(pieces) ==
    IF pieces = << >> THEN << >>
    ELSE IF strip(Head(pieces)) # "" 
         THEN <<upper(strip(Head(pieces)))>> \o peer_list(Tail(pieces))
    ELSE peer_list(Tail(pieces))

\* dict[name]["value"]; a KeyError when the dict has no such key
Metric(dict, name) == IF name \in DOMAIN dict THEN dict[name].value ELSE Raise

\* peer[name]["value"] and main[name]["value"] and peer value > main value + margin
\* (margin > 0), or ... and peer value < main value + margin (margin < 0);
\* "and" reads the main summary only when the peer's value is truthy
Rule(peer, main, name, margin) ==
    LET pv == Metric(peer, name)
        mv == Metric(main, name)
    IN  IF pv = Raise THEN "raise"
        ELSE IF ~Truthy(pv) THEN "skip"
        ELSE IF mv = Raise THEN "raise"
        ELSE IF ~Truthy(mv) THEN "skip"
        ELSE IF (margin > 0 /\ pv.v > mv.v + margin) \/ (margin < 0 /\ pv.v < mv.v + margin)
             THEN "fire" ELSE "skip"

\* the text appended for a rule that fired
Insight(endpoint, kind, name, main, peer, pos) ==
    IF endpoint = "generate_brief"
    THEN [kind |-> kind, pos |-> pos, subject |-> main["Ticker"],
          subject_value |-> main[name].value, peer |-> peer["Ticker"],
          peer_value |-> peer[name].value, source |-> main[name].source]
    ELSE IF endpoint = "generate_prompt"
    THEN [kind |-> kind, pos |-> pos, subject |-> main["Ticker"],
          subject_value |-> main[name].value, peer |-> peer["Ticker"],
          peer_value |-> peer[name].value]
    ELSE [kind |-> kind, pos |-> pos, subject |-> main["Ticker"],
          peer |-> peer["Ticker"]]

\* what a stretch of the peer loop did: it raised, or appended these insights
Raised == [raised |-> TRUE]
Appended(items) == [raised |-> FALSE, items |-> items]

\* the three rules in the order SG&A burden, gross margin, FCF margin
peer_rules_reordered(endpoint, main, peer, pos) ==
    LET r1 == Rule(peer, main, "Gross Margin (%)", 200)
        r2 == Rule(peer, main, "SG&A as % of Revenue", -200)
        r3 == Rule(peer, main, "FCF Margin (%)", 200)
    IN  IF "raise" \in {r1, r2, r3} THEN Raised
        ELSE Appended(
             (IF r2 = "fire"
              THEN <<Insight(endpoint, "sga burden", "SG&A as % of Revenue", main, peer, pos)>>
              ELSE << >>)
          \o (IF r1 = "fire"
              THEN <<Insight(endpoint, "gross margin", "Gross Margin (%)", main, peer, pos)>>
              ELSE << >>)
          \o (IF r3 = "fire"
              THEN <<Insight(endpoint, "fcf margin", "FCF Margin (%)", main, peer, pos)>>
              ELSE << >>))

\* the body of "for peer in peer_summaries" for the peer at position pos
peer_rules(endpoint, main, peer, pos) ==
    LET r1 == Rule(peer, main, "Gross Margin (%)", 200)
        r2 == Rule(peer, main, "SG&A as % of Revenue", -200)
        r3 == Rule(peer, main, "FCF Margin (%)", 200)
    IN  IF "raise" \in {r1, r2, r3} THEN Raised
        ELSE Appended(
             (IF r1 = "fire"
              THEN <<Insight(endpoint, "gross margin", "Gross Margin (%)", main, peer, pos)>>
              ELSE << >>)
          \o (IF r2 = "fire"
              THEN <<Insight(endpoint, "sga burden", "SG&A as % of Revenue", main, peer, pos)>>
              ELSE << >>)
          \o (IF r3 = "fire"
              THEN <<Insight(endpoint, "fcf margin", "FCF Margin (%)", main, peer, pos)>>
              ELSE << >>))

\* the loop over peer_summaries from position pos on
RECURSIVE peer_loop(_, _, _, _)
peer_loop(endpoint, main, peers, pos) ==
    IF pos > Len(peers) THEN Appended(<< >>)
    ELSE LET here == peer_rules(endpoint, main, peers[pos], pos)
             rest == peer_loop(endpoint, main, peers, pos + 1)
         IN  IF here.raised \/ rest.raised THEN Raised
             ELSE Appended(here.items \o rest.items)

\* the lines generate_brief appends after the peer loop
parsed_lines(parsed) ==
    (IF parsed.strategy_flags # << >>
     THEN <<[kind |-> "heading", text |-> "Strategic initiatives"]>>
          \o [i \in DOMAIN parsed.strategy_flags |->
                [kind |-> "line", text |-> parsed.strategy_flags[i]]]
     ELSE << >>)
 \o (IF parsed.board_insights # << >>
     THEN <<[kind |-> "heading", text |-> "Board governance"]>>
          \o [i \in DOMAIN parsed.board_insights |->
                [kind |-> "line", text |-> parsed.board_insights[i]]]
     ELSE << >>)

BadRequest == [status |-> 400]
ServerError == [status |-> 500]

\* the endpoints below are given the request and what their calls
\*     main_summary = analyze_company(ticker.upper())
\*     peer_summaries = [analyze_company(p) for p in peer_list]
\* returned; an exception that leaves the view function is a 500 response
AnyRaised(main_out, peer_outs) ==
    main_out.raised \/ \E i \in DOMAIN peer_outs : peer_outs[i].raised

Values(peer_outs) == [i \in DOMAIN peer_outs |-> peer_outs[i].value]

generate_brief(req, main_out, peer_outs) ==
    IF req.ticker = "" THEN BadRequest
    ELSE IF AnyRaised(main_out, peer_outs) THEN ServerError
    ELSE IF PyOr(Metric(main_out.value, "Revenue"), Num(100)) = Raise THEN ServerError
    ELSE LET insights == peer_loop("generate_brief", main_out.value, Values(peer_outs), 1)
         IN  IF insights.raised THEN ServerError
             ELSE [status |-> 200,
                   insights |-> insights.items \o parsed_lines(req.parsed)]

generate_prompt(req, main_out, peer_outs) ==
    IF req.ticker = "" THEN BadRequest
    ELSE IF AnyRaised(main_out, peer_outs) THEN ServerError
    ELSE IF PyOr(Metric(main_out.value, "Revenue"), Num(100)) = Raise THEN ServerError
    ELSE LET insights == peer_loop("generate_prompt", main_out.value, Values(peer_outs), 1)
         IN  IF insights.raised THEN ServerError
             ELSE [status |-> 200, insights |-> insights.items]

generate_narrative(req, main_out, peer_outs) ==
    IF req.ticker = "" THEN BadRequest
    ELSE IF AnyRaised(main_out, peer_outs) THEN ServerError
    ELSE LET insights == peer_loop("generate_narrative", main_out.value, Values(peer_outs), 1)
         IN  IF insights.raised THEN ServerError
             ELSE [status |-> 200, insights |-> insights.items]

(***************************************************************************)
(* Inputs of the resolver specification: tables over three balance-sheet   *)
(* labels, two of which differ only in case, in every index order; a row   *)
(* holds the label's own figures, any of them possibly NaN.                *)
(***************************************************************************)
ResolveLabels == {"Long Term Debt", "Total Debt", "TOTAL DEBT"}
ResolveKeys == {"Total Debt", "TOTAL DEBT"}

RECURSIVE Halved(_, _)
Halved(m, times) == IF times = 0 THEN m ELSE Halved(m \div 2, times - 1)

\* the figure, in mills, that the label reports for its j-th latest period
CellValue(label, j) ==
    Halved(CASE label = "Long Term Debt" -> 500000
             [] label = "Total Debt" -> 200000
             [] OTHER -> 1234,
           j - 1)

\* the rows a label can have: 1 .. MaxPeriods periods, each a figure or NaN
RowsOf(label) ==
    UNION {{[j \in 1..n |-> IF mask[j] THEN NaN ELSE Cell(CellValue(label, j))] :
              mask \in [1..n -> BOOLEAN]} : n \in 1..MaxPeriods}

\* the sequences of distinct labels of ResolveLabels
RECURSIVE LabelOrders(_)
LabelOrders(labels) ==
    {<< >>} \cup UNION {{<<l>> \o rest : rest \in LabelOrders(labels \ {l})} :
                          l \in labels}

\* the tables whose index is the given sequence of labels
RECURSIVE FramesOver(_)
FramesOver(order) ==
    IF order = << >> THEN {<< >>}
    ELSE {<<[label |-> Head(order), cells |-> r]>> \o rest :
             r \in RowsOf(Head(order)), rest \in FramesOver(Tail(order))}

ResolveFrames == UNION {FramesOver(order) : order \in LabelOrders(ResolveLabels)}

InitResolve ==
    /\ op = "init"
    /\ uploads = {}
    /\ API_KEY = DefaultKey
    /\ df \in ResolveFrames
    /\ key \in ResolveKeys
    /\ result = None
    /\ feed = FailedFeed
    /\ summary = NotRun
    /\ yahoo = << >>
    /\ request = NoRequest
    /\ main_summary = NotRun
    /\ peer_summaries = << >>
    /\ response = NoResponse

SafeExtract ==
    /\ op' = "safe_extract"
    /\ result' = safe_extract(df, key)
    /\ UNCHANGED <<uploads, API_KEY, df, key, feed, summary, yahoo, request,
                 main_summary, peer_summaries, response>>

CalculateTrends ==
    /\ op' = "calculate_trends"
    /\ result' = calculate_trends(df, key)
    /\ UNCHANGED <<uploads, API_KEY, df, key, feed, summary, yahoo, request,
                 main_summary, peer_summaries, response>>

NextResolve == SafeExtract \/ CalculateTrends

SpecResolve == InitResolve /\ [][NextResolve]_vars

(***************************************************************************)
(* Inputs of the trend specification: an income statement with at most one *)
(* revenue row, under either of two revenue labels, whose periods are NaN, *)
(* negative, zero or positive.                                             *)
(***************************************************************************)
TrendLabels == {"Total Revenue", "Revenues"}
TrendKeys == {"Revenue", "Total Revenue"}
TrendCells == {NaN, Cell(-200000), Cell(0), Cell(100000), Cell(200000)}
TrendRows == UNION {[1..n -> TrendCells] : n \in 1..(MaxPeriods + 1)}
TrendFrames ==
    {EmptyFrame} \cup {<<[label |-> l, cells |-> r]>> : l \in TrendLabels, r \in TrendRows}

InitTrends ==
    /\ op = "init"
    /\ uploads = {}
    /\ API_KEY = DefaultKey
    /\ df \in TrendFrames
    /\ key \in TrendKeys
    /\ result = None
    /\ feed = FailedFeed
    /\ summary = NotRun
    /\ yahoo = << >>
    /\ request = NoRequest
    /\ main_summary = NotRun
    /\ peer_summaries = << >>
    /\ response = NoResponse

NextTrends == CalculateTrends

SpecTrends == InitTrends /\ [][NextTrends]_vars

(***************************************************************************)
(* Inputs of the analysis specification: what yfinance can serve.  A row   *)
(* option is the cells of the row, or Absent when the table has no such    *)
(* row.  Amounts are whole units, the positive revenue and net income      *)
(* series halve from one period back to the next.                          *)
(***************************************************************************)
Absent == << >>
Row(units) == <<Cell(units * 1000)>>

\* the latest n periods of a series that starts at the given units
Series(units, n) == [j \in 1..n |-> Cell(Halved(units * 1000, j - 1))]

\* a table of the labelled rows that are not Absent
Frame(rows) == SelectSeq(rows, LAMBDA r : r.cells # Absent)

FinFrame(rev, gp, sga, opex, ni) ==
    Frame(<<[label |-> "Total Revenue", cells |-> rev],
            [label |-> "Gross Profit", cells |-> gp],
            [label |-> "Selling General Administrative", cells |-> sga],
            [label |-> "Operating Expenses", cells |-> opex],
            [label |-> "Net Income", cells |-> ni]>>)

BalFrame(cash, ltd, td, equity) ==
    Frame(<<[label |-> "Cash", cells |-> cash],
            [label |-> "Total Debt", cells |-> td],
            [label |-> "Long Term Debt", cells |-> ltd],
            [label |-> "Total Stockholder Equity", cells |-> equity]>>)

CfFrame(ocf, capex, buybacks) ==
    Frame(<<[label |-> "Total Cash From Operating Activities", cells |-> ocf],
            [label |-> "Capital Expenditures", cells |-> capex],
            [label |-> "Repurchase Of Stock", cells |-> buybacks]>>)

Served(info, fin, bal, qbal, cf, qcf) ==
    [ok |-> TRUE, info |-> info, financials |-> fin, balance_sheet |-> bal,
     quarterly_balance_sheet |-> qbal, cashflow |-> cf, quarterly_cashflow |-> qcf]

InfoOptions == {<< >>,
                ("longName" :> "Acme Corp") @@ ("marketCap" :> Num(100000))}

RevOptions == {Absent, <<NaN>>, Row(0)} \cup {Series(1000, n) : n \in 1..MaxPeriods}
NiOptions == {Absent} \cup {Series(80, n) : n \in 1..MaxPeriods}
FinOptions ==
    {FinFrame(rev, gp, sga, opex, ni) :
        rev \in RevOptions, gp \in {Absent, Row(0), Row(400), <<Cell(40)>>},
        sga \in {Absent, Row(150)}, opex \in {Absent, Row(300)}, ni \in NiOptions}
BaseFin == FinFrame(Row(1000), Row(400), Row(150), Absent, Row(80))

BalOptions ==
    {BalFrame(cash, ltd, td, equity) :
        cash \in {Absent, Row(0), Row(50)}, ltd \in {Absent, Row(0), Row(500)},
        td \in {Absent, Row(200)}, equity \in {Absent, Row(0), Row(250)}}
QBalOptions ==
    {BalFrame(cash, ltd, td, equity) :
        cash \in {Absent, Row(0), Row(70)}, ltd \in {Absent, Row(300)},
        td \in {Absent, Row(100)}, equity \in {Absent, Row(125)}}
BaseBal == BalFrame(Row(50), Absent, Row(200), Row(250))

CfOptions ==
    {CfFrame(ocf, capex, buybacks) :
        ocf \in {Absent, Row(0), Row(500)}, capex \in {Absent, Row(0), Row(-120)},
        buybacks \in {Absent, Row(-10)}}
QCfOptions ==
    {CfFrame(ocf, capex, buybacks) :
        ocf \in {Absent, Row(40)}, capex \in {Absent, Row(0), Row(-30)},
        buybacks \in {Absent, Row(-5)}}
\* free cash flow missing, 100 and -100
CfFew == {EmptyFrame, CfFrame(Row(220), Row(-120), Absent),
          CfFrame(Row(20), Row(-120), Absent)}

\* the income statement varies
FinFeeds ==
    {Served(info, fin, BaseBal, EmptyFrame, cf, EmptyFrame) :
        info \in InfoOptions, fin \in FinOptions, cf \in CfFew}
\* the cash-flow statements vary, against each revenue
CashFlowFeeds ==
    {Served(info, FinFrame(rev, Row(400), Row(150), Absent, Row(80)),
            BaseBal, EmptyFrame, cf, qcf) :
        info \in InfoOptions, rev \in RevOptions, cf \in CfOptions, qcf \in QCfOptions}
\* the balance sheets vary
BalanceFeeds ==
    {Served(info, BaseFin, bal, qbal, cf, EmptyFrame) :
        info \in InfoOptions, bal \in BalOptions, qbal \in QBalOptions, cf \in CfFew}

Feeds == {FailedFeed} \cup FinFeeds \cup CashFlowFeeds \cup BalanceFeeds

Init ==
    /\ op = "init"
    /\ uploads = {}
    /\ API_KEY = DefaultKey
    /\ feed \in Feeds
    /\ summary = NotRun
    /\ df = EmptyFrame
    /\ key = ""
    /\ result = None
    /\ yahoo = << >>
    /\ request = NoRequest
    /\ main_summary = NotRun
    /\ peer_summaries = << >>
    /\ response = NoResponse

AnalyzeCompany ==
    /\ op = "init"
    /\ op' = "analyze_company"
    /\ summary' = analyze_company("AAA", feed)
    /\ UNCHANGED <<uploads, API_KEY, df, key, result, feed, yahoo, request,
                 main_summary, peer_summaries, response>>

Next == AnalyzeCompany

Spec == Init /\ [][Next]_vars

(***************************************************************************)
(* Inputs of the comparison specification: yfinance serves each of two     *)
(* tickers a feed whose margins are low or high, missing, rounded to 0.0   *)
(* or exactly two points above the low one, or holds more cash than debt,  *)
(* or fails.                                                               *)
(***************************************************************************)
CmpServed(rev, gp, sga, cf) ==
    Served(<< >>, FinFrame(rev, gp, sga, Absent, Absent), EmptyFrame, EmptyFrame,
           cf, EmptyFrame)

\* free cash flow 100 and 200
CfLow == CfFrame(Row(220), Row(-120), Absent)
CfHigh == CfFrame(Row(320), Row(-120), Absent)

CmpFeeds ==
    {FailedFeed}
    \cup {CmpServed(Row(1000), gp, sga, cf) :
            gp \in {Row(400), Row(450)}, sga \in {Row(100), Row(150)},
            cf \in {CfLow, CfHigh}}
    \cup {CmpServed(Absent, Row(400), Row(150), CfLow),
          CmpServed(Row(1000), Absent, Row(150), CfLow),
          CmpServed(Row(1000), <<Cell(40)>>, Row(150), CfLow),
          CmpServed(Row(1000), Row(420), Row(130), CfLow),
          Served(<< >>, BaseFin, BalFrame(Row(500), Absent, Row(200), Row(250)),
                 EmptyFrame, CfFrame(Row(220), Row(-120), Row(-10)), EmptyFrame)}

Tickers == {"AAA", "BBB"}
TickerParams == {"", "aaa"}
PeerPieces == {"aaa", " bbb", " "}
PeersParams == UNION {[1..n -> PeerPieces] : n \in 0..MaxPeers}
ParsedOptions ==
    {[strategy_flags |-> << >>, board_insights |-> << >>],
     [strategy_flags |-> <<"omnichannel rollout">>,
      board_insights |-> <<"director compensation">>]}

Requests(endpoint) ==
    {[endpoint |-> endpoint, ticker |-> t, peers |-> ps, parsed |-> parsed] :
        t \in TickerParams, ps \in PeersParams, parsed \in ParsedOptions}

InitCompare ==
    /\ op = "init"
    /\ uploads = {}
    /\ API_KEY = DefaultKey
    /\ yahoo \in [Tickers -> CmpFeeds]
    /\ request = NoRequest
    /\ main_summary = NotRun
    /\ peer_summaries = << >>
    /\ response = NoResponse
    /\ df = EmptyFrame
    /\ key = ""
    /\ result = None
    /\ feed = FailedFeed
    /\ summary = NotRun

\* the calls of analyze_company that every comparison endpoint makes once
\* the ticker parameter is known to be there
Analyzed(req) ==
    IF req.ticker = ""
    THEN /\ main_summary' = NotRun
         /\ peer_summaries' = << >>
    ELSE /\ main_summary' = analyze_company(upper(req.ticker), yahoo[upper(req.ticker)])
         /\ peer_summaries' =
               LET peers == peer_list(req.peers)
               IN  [i \in DOMAIN peers |-> analyze_company(peers[i], yahoo[peers[i]])]

GenerateBrief ==
    /\ op = "init"
    /\ \E req \in Requests("generate_brief") :
          /\ request' = req
          /\ Analyzed(req)
          /\ response' = generate_brief(req, main_summary', peer_summaries')
    /\ op' = "generate_brief"
    /\ UNCHANGED <<uploads, API_KEY, df, key, result, feed, summary, yahoo>>

GeneratePrompt ==
    /\ op = "init"
    /\ \E req \in Requests("generate_prompt") :
          /\ request' = req
          /\ Analyzed(req)
          /\ response' = generate_prompt(req, main_summary', peer_summaries')
    /\ op' = "generate_prompt"
    /\ UNCHANGED <<uploads, API_KEY, df, key, result, feed, summary, yahoo>>

GenerateNarrative ==
    /\ op = "init"
    /\ \E req \in Requests("generate_narrative") :
          /\ request' = req
          /\ Analyzed(req)
          /\ response' = generate_narrative(req, main_summary', peer_summaries')
    /\ op' = "generate_narrative"
    /\ UNCHANGED <<uploads, API_KEY, df, key, result, feed, summary, yahoo>>

NextCompare == GenerateBrief \/ GeneratePrompt \/ GenerateNarrative

SpecCompare == InitCompare /\ [][NextCompare]_vars

(***************************************************************************)
(* The build specification: analyze_company statement by statement.  The   *)
(* dict literal writes its six entries at once, every later statement      *)
(* writes one entry; the endpoint then reads the returned set.             *)
(***************************************************************************)
\* the keys that each statement of analyze_company assigns, in code order
Statements ==
    <<<<"Company", "Ticker", "Revenue", "Gross Profit", "SG&A", "Net Income">>,
      <<"Gross Margin (%)">>, <<"Net Income Margin (%)">>,
      <<"SG&A as % of Revenue">>, <<"Cash">>, <<"Total Debt">>, <<"Net Debt">>,
      <<"Debt-to-Equity Ratio">>, <<"Operating Cash Flow">>, <<"CapEx">>,
      <<"Share Buybacks">>, <<"Free Cash Flow">>, <<"FCF Margin (%)">>,
      <<"Revenue CAGR (%)">>, <<"Net Income CAGR (%)">>, <<"SG&A CAGR (%)">>,
      <<"IRR Table">>>>

KeysOf(i) == {Statements[i][j] : j \in DOMAIN Statements[i]}

\* the number of statements run so far
Position ==
    IF key = "" THEN 0
    ELSE CHOOSE i \in DOMAIN Statements : Statements[i][Len(Statements[i])] = key

BuildFeeds ==
    {FailedFeed}
    \cup {Served(info, fin, bal, EmptyFrame, cf, EmptyFrame) :
            info \in InfoOptions,
            fin \in {EmptyFrame, BaseFin,
                     FinFrame(Series(1000, MaxPeriods), Row(400), Row(150), Absent,
                              Series(80, MaxPeriods))},
            bal \in {EmptyFrame, BaseBal},
            cf \in CfFew}

InitBuild ==
    /\ op = "init"
    /\ uploads = {}
    /\ API_KEY = DefaultKey
    /\ feed \in BuildFeeds
    /\ summary = NotRun
    /\ df = EmptyFrame
    /\ key = ""
    /\ result = None
    /\ yahoo = << >>
    /\ request = NoRequest
    /\ main_summary = NotRun
    /\ peer_summaries = << >>
    /\ response = NoResponse

\* the try block that fetches the tables: a failure returns the error dict
Fetch ==
    /\ op = "init"
    /\ IF ~feed.ok \/ analyze_company("AAA", feed).raised
       THEN /\ summary' = analyze_company("AAA", feed)
            /\ op' = "analyze_company"
       ELSE /\ summary' = [raised |-> FALSE, value |-> << >>]
            /\ op' = "building"
    /\ UNCHANGED <<uploads, API_KEY, df, key, result, feed, yahoo, request,
                 main_summary, peer_summaries, response>>

\* the next statement assigns its keys (the IRR statement only when its
\* condition holds)
Assign ==
    /\ op = "building"
    /\ Position < Len(Statements)
    /\ LET final == analyze_company("AAA", feed).value
           keys  == KeysOf(Position + 1) \cap DOMAIN final
           old   == summary.value
       IN  summary' = [raised |-> FALSE,
                       value |-> [k \in DOMAIN old \cup keys |->
                                     IF k \in keys THEN final[k] ELSE old[k]]]
    /\ key' = Statements[Position + 1][Len(Statements[Position + 1])]
    /\ UNCHANGED <<uploads, API_KEY, op, df, result, feed, yahoo, request,
                 main_summary, peer_summaries, response>>

\* return summary
Return ==
    /\ op = "building"
    /\ Position = Len(Statements)
    /\ op' = "analyze_company"
    /\ UNCHANGED <<uploads, API_KEY, df, key, result, feed, summary, yahoo, request,
                 main_summary, peer_summaries, response>>

\* generate_brief for the ticker, without peers, on the set just returned
Brief ==
    /\ op = "analyze_company"
    /\ \E parsed \in ParsedOptions :
          LET req == [endpoint |-> "generate_brief", ticker |-> "aaa",
                      peers |-> << >>, parsed |-> parsed]
          IN  /\ request' = req
              /\ main_summary' = summary
              /\ peer_summaries' = << >>
              /\ response' = generate_brief(req, summary, << >>)
    /\ op' = "generate_brief"
    /\ UNCHANGED <<uploads, API_KEY, df, key, result, feed, summary, yahoo>>

NextBuild == Fetch \/ Assign \/ Return \/ Brief

SpecBuild == InitBuild /\ [][NextBuild]_vars

(***************************************************************************)
(* The gate specification: requests to two of the routes that              *)
(* require_api_key wraps, upload_file and generate_irr, served one after   *)
(* the other.  A request carries its headers, its uploaded files and its   *)
(* ticker parameter; main_summary is what the view's analysis returned,    *)
(* NotRun when the request ran none.                                       *)
(***************************************************************************)
\* a gate that accepts every non-empty key
AnyKey(req) == Truthy(Get(req.headers, "X-API-KEY", None))

\* key and key == API_KEY, for key = request.headers.get("X-API-KEY")
Authorized(req) ==
    LET k == Get(req.headers, "X-API-KEY", None)
    IN  Truthy(k) /\ k = Str(API_KEY)

Unauthorized == [status |-> 401, error |-> "Unauthorized"]

\* the keys the process can be configured with
ConfiguredKeys == {DefaultKey, "k1", ""}
HeaderOptions ==
    {<< >>} \cup {"X-API-KEY" :> Str(k) : k \in {"", "k1", "k2", DefaultKey}}
FileOptions == {<< >>} \cup {"file" :> name : name \in {"", "a.pdf", "b.pdf"}}
GateFeeds == {FailedFeed,
              Served(("marketCap" :> Num(100000)), BaseFin, BaseBal, EmptyFrame,
                     CfFrame(Row(220), Row(-120), Absent), EmptyFrame)}

GateRequests(endpoint) ==
    {[endpoint |-> endpoint, headers |-> h, files |-> f, ticker |-> t] :
        h \in HeaderOptions,
        f \in IF endpoint = "upload_file" THEN FileOptions ELSE {<< >>},
        t \in IF endpoint = "generate_irr" THEN TickerParams ELSE {""}}

InitGate ==
    /\ op = "init"
    /\ uploads = {}
    /\ API_KEY \in ConfiguredKeys
    /\ yahoo \in [Tickers -> GateFeeds]
    /\ request = NoRequest
    /\ main_summary = NotRun
    /\ peer_summaries = << >>
    /\ response = NoResponse
    /\ df = EmptyFrame
    /\ key = ""
    /\ result = None
    /\ feed = FailedFeed
    /\ summary = NotRun

\* the view upload_file: the file is saved before it is opened as a PDF
upload_file(req) ==
    IF "file" \notin DOMAIN req.files
    THEN /\ response' = [status |-> 400, error |-> "No file part in request"]
         /\ uploads' = uploads
    ELSE IF req.files["file"] = ""
    THEN /\ response' = [status |-> 400, error |-> "No selected file"]
         /\ uploads' = uploads
    ELSE /\ uploads' = uploads \cup {req.files["file"]}
         /\ \E readable \in BOOLEAN :
               response' = IF readable
                           THEN [status |-> 200, filename |-> req.files["file"]]
                           ELSE [status |-> 500, error |-> "Failed to process file"]

\* the view generate_irr
generate_irr(req) ==
    IF req.ticker = ""
    THEN /\ response' = [status |-> 400, error |-> "Missing 'ticker' parameter"]
         /\ main_summary' = NotRun
    ELSE /\ main_summary' = analyze_company(upper(req.ticker), yahoo[upper(req.ticker)])
         /\ response' =
               IF main_summary'.raised \/ "error" \in DOMAIN main_summary'.value
               THEN [status |-> 500, error |-> "Yahoo Finance failed"]
               ELSE [status |-> 200, ticker |-> upper(req.ticker),
                     irr_table |-> Get(main_summary'.value, "IRR Table",
                                       [error |-> "Not Available"])]

\* decorated_function around upload_file
UploadFile ==
    /\ \E req \in GateRequests("upload_file") :
          /\ request' = req
          /\ IF Authorized(req) THEN upload_file(req)
             ELSE response' = Unauthorized /\ uploads' = uploads
    /\ op' = "upload_file"
    /\ main_summary' = NotRun
    /\ UNCHANGED <<API_KEY, df, key, result, feed, summary, yahoo, peer_summaries>>

\* decorated_function around generate_irr
GenerateIrr ==
    /\ \E req \in GateRequests("generate_irr") :
          /\ request' = req
          /\ IF Authorized(req) THEN generate_irr(req)
             ELSE response' = Unauthorized /\ main_summary' = NotRun
    /\ op' = "generate_irr"
    /\ UNCHANGED <<uploads, API_KEY, df, key, result, feed, summary, yahoo,
                 peer_summaries>>

NextGate == UploadFile \/ GenerateIrr

SpecGate == InitGate /\ [][NextGate]_vars

(***************************************************************************)
(* Claims about the resolver                                               *)
(***************************************************************************)
MinOf(S) == CHOOSE x \in S : \A y \in S : x <= y

\* C1: the first alias, in list order, that the table holds supplies the
\* result and no later alias is consulted: safe_extract (which matches
\* labels without regard to case) returns the latest figure of a row that
\* bears that alias, calculate_trends (which matches exactly) returns the
\* trend of that alias's row alone; with no alias in the table both return
\* None.
C1_AliasPriority ==
    LET aliases == AliasesOf(key)
        anyCase == {i \in DOMAIN aliases :
                      \E r \in DOMAIN df : lower(df[r].label) = lower(aliases[i])}
        exact   == {i \in DOMAIN aliases : aliases[i] \in Index(df)}
    IN  /\ op = "safe_extract" =>
             IF anyCase = {} THEN result = None
             ELSE \E r \in DOMAIN df :
                     /\ lower(df[r].label) = lower(aliases[MinOf(anyCase)])
                     /\ result = extract_latest(df[r].cells)
        /\ op = "calculate_trends" =>
             IF exact = {} THEN result = None
             ELSE LET a == aliases[MinOf(exact)]
                  IN  result = calculate_trends(
                                  <<[label |-> a, cells |-> Loc(df, a)]>>, a)

\* a table with both the first and the second alias of Total Debt, with
\* different latest figures, resolved to the first alias's figure
C1_Witness ==
    /\ op = "safe_extract"
    /\ key = "Total Debt"
    /\ {"Long Term Debt", "Total Debt"} \subseteq Index(df)
    /\ result # None
    /\ result = extract_latest(Loc(df, "Long Term Debt"))
    /\ extract_latest(Loc(df, "Total Debt")) \notin {None, result}

(***************************************************************************)
(* Claims about analyze_company                                            *)
(***************************************************************************)
Done == op = "analyze_company"
Entry(name) == summary.value[name]
Missing == [value |-> None, source |-> "Missing"]

MetricNames ==
    {"Revenue", "Gross Profit", "SG&A", "Net Income", "Cash", "Total Debt",
     "Operating Cash Flow", "CapEx", "Share Buybacks", "Gross Margin (%)",
     "Net Income Margin (%)", "SG&A as % of Revenue", "Net Debt",
     "Debt-to-Equity Ratio", "Free Cash Flow", "FCF Margin (%)",
     "Revenue CAGR (%)", "Net Income CAGR (%)", "SG&A CAGR (%)", "IRR Table"}

\* C2: analyze_company never raises and returns, for every input, a set
\* with an entry for every concept and derived metric, the IRR table
\* included.
C2_CompleteMetricSet ==
    Done => ~summary.raised /\ MetricNames \subseteq DOMAIN summary.value

RatioNames == {"Gross Margin (%)", "Net Income Margin (%)", "SG&A as % of Revenue",
               "Debt-to-Equity Ratio", "FCF Margin (%)"}

\* the equity that analyze_company resolved (it is not kept in the summary)
ResolvedEquity ==
    PyOr(get_val(feed.balance_sheet, "Total Stockholder Equity", NoLabel),
         get_val(feed.quarterly_balance_sheet, "Total Stockholder Equity", NoLabel))

Denominator(ratio) ==
    IF ratio = "Debt-to-Equity Ratio" THEN ResolvedEquity ELSE Entry("Revenue").value

\* C3: analyze_company raises nothing, every derived ratio is None or a
\* finite number, and a ratio whose denominator (Revenue, or the resolved
\* Equity for Debt-to-Equity) is None or 0 is None with source "Missing".
C3_NullSafeDivision ==
    Done =>
        /\ ~summary.raised
        /\ feed.ok =>
             \A ratio \in RatioNames :
                /\ Entry(ratio).value.k \in {"None", "num"}
                /\ Denominator(ratio) \in {None, Num(0)} => Entry(ratio) = Missing

\* revenue 0 under a gross profit of 400: the margin is missing
C3_Witness ==
    /\ Done
    /\ ~summary.raised
    /\ feed.ok
    /\ Entry("Revenue").value = Num(0)
    /\ Entry("Gross Profit").value = Num(40000)
    /\ Entry("Gross Margin (%)") = Missing

\* C7: a concept that the annual table supplies a value for (0 included)
\* is reported with that annual value.
C7_AnnualBeforeQuarterly ==
    Done /\ feed.ok =>
        \A c \in {<<"Cash", feed.balance_sheet, "Cash", NoLabel>>,
                  <<"Total Debt", feed.balance_sheet, "Long Term Debt", "Total Debt">>,
                  <<"Operating Cash Flow", feed.cashflow,
                    "Total Cash From Operating Activities", NoLabel>>,
                  <<"CapEx", feed.cashflow, "Capital Expenditures", NoLabel>>,
                  <<"Share Buybacks", feed.cashflow, "Repurchase Of Stock", NoLabel>>} :
            get_val(c[2], c[3], c[4]) # None =>
                Entry(c[1]).value = get_val(c[2], c[3], c[4])

\* C8: a balance sheet with a "Total Debt" row resolves Total Debt to that
\* row, whether or not it also has a "Long Term Debt" row (with a figure
\* other than 0).
C8_PrimaryLabelFirst ==
    /\ Done
    /\ feed.ok
    /\ "Total Debt" \in Index(feed.balance_sheet)
    /\ "Long Term Debt" \in Index(feed.balance_sheet) =>
          Truthy(extract_latest(Loc(feed.balance_sheet, "Long Term Debt")))
    => Entry("Total Debt").value = extract_latest(Loc(feed.balance_sheet, "Total Debt"))

\* C9: when Operating Cash Flow and CapEx are both reported (any values,
\* 0 included) Free Cash Flow is their sum with source "Calculated";
\* otherwise it is missing.
C9_FreeCashFlow ==
    Done /\ feed.ok =>
        LET ocf   == Entry("Operating Cash Flow").value
            capex == Entry("CapEx").value
        IN  IF ocf # None /\ capex # None
            THEN Entry("Free Cash Flow") =
                    [value |-> Num(ocf.v + capex.v), source |-> "Calculated"]
            ELSE Entry("Free Cash Flow") = Missing

\* C10: when Total Debt and Cash are both reported (0 included) Net Debt
\* is Total Debt - Cash; otherwise it is missing.
C10_NetDebt ==
    Done /\ feed.ok =>
        LET debt == Entry("Total Debt").value
            cash == Entry("Cash").value
        IN  IF debt # None /\ cash # None
            THEN Entry("Net Debt") =
                    [value |-> Num(debt.v - cash.v), source |-> "Calculated"]
            ELSE Entry("Net Debt") = Missing

(***************************************************************************)
(* Claims about the peer comparison                                        *)
(***************************************************************************)
Compared == op \in {"generate_brief", "generate_prompt", "generate_narrative"}

\* the value a comparison should read: None for a metric that is not there
ValueOrNone(out, name) ==
    IF ~out.raised /\ name \in DOMAIN out.value THEN out.value[name].value ELSE None

Fired(kind, pos) ==
    \E i \in DOMAIN response.insights :
        /\ response.insights[i].kind = kind
        /\ response.insights[i].pos = pos

PeerRuleKinds == <<"gross margin", "sga burden", "fcf margin">>
IsPeerInsight(ins) == \E r \in DOMAIN PeerRuleKinds : ins.kind = PeerRuleKinds[r]

\* whether a rule is due: both values there and the peer's beyond the
\* subject's by more than two points
Due(name, margin, pos) ==
    LET pv == ValueOrNone(peer_summaries[pos], name)
        mv == ValueOrNone(main_summary, name)
    IN  /\ pv # None
        /\ mv # None
        /\ IF margin > 0 THEN pv.v > mv.v + margin ELSE pv.v < mv.v + margin

\* C4: every comparison with a ticker succeeds, and for every peer each
\* rule emits its insight exactly when both values are present and the
\* peer's is beyond the subject's by more than 2; a missing value, or a
\* metric set that could not be built, only suppresses the rule.
C4_PeerRules ==
    Compared /\ request.ticker # "" =>
        /\ response.status = 200
        /\ \A pos \in DOMAIN peer_summaries :
              /\ Fired("gross margin", pos) <=> Due("Gross Margin (%)", 200, pos)
              /\ Fired("sga burden", pos) <=> Due("SG&A as % of Revenue", -200, pos)
              /\ Fired("fcf margin", pos) <=> Due("FCF Margin (%)", 200, pos)

RankOf(kind) == CHOOSE r \in DOMAIN PeerRuleKinds : PeerRuleKinds[r] = kind

\* C5: the peer insights of a response come in peer order and, within a
\* peer, in rule order, each (peer, rule) pair at most once.
C5_InsightOrder ==
    Compared /\ response.status = 200 =>
        LET ins == SelectSeq(response.insights, IsPeerInsight)
        IN  \A i, j \in DOMAIN ins :
               i < j =>
                  /\ ins[i].pos \in DOMAIN peer_summaries
                  /\ ins[j].pos \in DOMAIN peer_summaries
                  /\ \/ ins[i].pos < ins[j].pos
                     \/ /\ ins[i].pos = ins[j].pos
                        /\ RankOf(ins[i].kind) < RankOf(ins[j].kind)

\* two peers for which all three rules fired
C5_Witness ==
    /\ Compared
    /\ response.status = 200
    /\ Len(peer_summaries) >= 2
    /\ \A pos \in {1, 2} : \A r \in DOMAIN PeerRuleKinds : Fired(PeerRuleKinds[r], pos)

HasInsight(kind) ==
    \E i \in DOMAIN response.insights : response.insights[i].kind = kind

\* C6: after the peer loop generate_brief adds "over-capitalized" when the
\* subject's Cash exceeds its Total Debt, otherwise "leverage concern" when
\* Net Debt / Revenue > 0.3, and "buybacks despite weak growth" when
\* Buybacks is present and the Revenue CAGR is below 2.
C6_CapitalStructure ==
    op = "generate_brief" /\ response.status = 200 =>
        LET cash == ValueOrNone(main_summary, "Cash")
            debt == ValueOrNone(main_summary, "Total Debt")
            netdebt == ValueOrNone(main_summary, "Net Debt")
            rev  == ValueOrNone(main_summary, "Revenue")
            buybacks == ValueOrNone(main_summary, "Share Buybacks")
            growth == ValueOrNone(main_summary, "Revenue CAGR (%)")
            rich == cash # None /\ debt # None /\ cash.v > debt.v
        IN  /\ rich => HasInsight("over-capitalized")
            /\ (/\ ~rich
                /\ netdebt # None
                /\ rev # None
                /\ rev.v > 0
                /\ 10 * netdebt.v > 3 * rev.v) => HasInsight("leverage concern")
            /\ (/\ buybacks # None
                /\ growth.k = "num"
                /\ growth.v < 200) => HasInsight("buybacks despite weak growth")

(***************************************************************************)
(* Claims about calculate_trends                                           *)
(***************************************************************************)
\* the non-null periods of the row that calculate_trends reads, most recent
\* first; none when no alias of the line item is in the table
TrendValues ==
    LET aliases == AliasesOf(key)
        found   == {i \in DOMAIN aliases : aliases[i] \in Index(df)}
    IN  IF found = {} THEN << >>
        ELSE dropna(Loc(df, aliases[MinOf(found)]))

Magnitude(x) == IF x < 0 THEN -x ELSE x

\* C11: calculate_trends returns None for fewer than two non-null periods,
\* None (never NaN or an infinity) when the oldest period is 0 or first /
\* last is negative, and otherwise
\* round(((first / last) ** (1 / (periods - 1)) - 1) * 100, 2).
C11_CagrEdgeCases ==
    op = "calculate_trends" =>
        LET values == TrendValues
            first  == values[1].m
            last   == values[Len(values)].m
        IN  IF Len(values) < 2 THEN result = None
            ELSE IF last = 0 \/ (first # 0 /\ (first < 0) # (last < 0))
            THEN result = None
            ELSE IF first = 0 THEN result = Num(-10000)
            ELSE result = Num(Root(Magnitude(first), Magnitude(last),
                                   Len(values) - 1) - 10000)

(***************************************************************************)
(* Claims about the IRR table                                              *)
(***************************************************************************)
\* the amount of a resolved value, 0 for a missing one
AmountOf(x) == IF x.k = "num" THEN x.v ELSE 0

\* the IRR of a row: ((exit / entry) ** (1 / 3) - 1) * 100 to 2 decimals,
\* with the real cube root of a negative ratio
ExpectedIrr(exit_ev, entry_ev) ==
    IF exit_ev >= 0
    THEN Num(Root(exit_ev, entry_ev, hold_period) - 10000)
    ELSE Num(-Root(-exit_ev, entry_ev, hold_period) - 10000)

\* C12: every metric set has an IRR table of exactly the rows 8, 9, 10, 11,
\* 12 in that order; a row's IRR is computed from exit = multiple * FCF and
\* entry = marketCap + Total Debt - Cash when entry > 0 and FCF # 0, and is
\* None otherwise.
C12_IrrGrid ==
    Done /\ feed.ok /\ ~summary.raised =>
        /\ "IRR Table" \in DOMAIN summary.value
        /\ "rows" \in DOMAIN Entry("IRR Table")
        /\ LET rows == Entry("IRR Table").rows
               fcf  == AmountOf(Entry("Free Cash Flow").value)
               entry_ev == AmountOf(Get(feed.info, "marketCap", None))
                              + AmountOf(Entry("Total Debt").value)
                              - AmountOf(Entry("Cash").value)
           IN  /\ Len(rows) = 5
               /\ \A i \in 1..5 :
                     /\ rows[i].multiple = 7 + i
                     /\ rows[i].irr =
                           IF entry_ev > 0 /\ fcf # 0
                           THEN ExpectedIrr((7 + i) * fcf, entry_ev)
                           ELSE None

(***************************************************************************)
(* Claims about provenance                                                 *)
(***************************************************************************)
\* the label that analyze_company passes to label_source for each entry
SourceLabel ==
    [name \in MetricNames \ {"IRR Table"} |->
        IF name \in {"Revenue", "Gross Profit", "Net Income", "Cash", "Total Debt"}
        THEN "Yahoo Finance"
        ELSE IF name \in {"SG&A", "Operating Cash Flow", "CapEx", "Share Buybacks"}
        THEN "Estimated"
        ELSE "Calculated"]

\* the entries of a metric set under construction or returned
Entries(out) ==
    IF out.raised THEN {} ELSE DOMAIN out.value \cap DOMAIN SourceLabel

\* C13: in every metric set, while it is built and once returned, an entry's
\* value is None exactly when its source is "Missing" and a present value
\* carries the label of its source; no step of analyze_company or of the
\* comparator changes or removes an entry already written, and the
\* comparator works on the set as returned.
C13_Provenance ==
    /\ [](\A name \in Entries(summary) :
             LET entry == summary.value[name]
             IN  /\ entry.value = None <=> entry.source = "Missing"
                 /\ entry.value # None => entry.source = SourceLabel[name])
    /\ [][/\ \A name \in Entries(summary) :
                /\ name \in Entries(summary')
                /\ summary'.value[name] = summary.value[name]
          /\ op' = "generate_brief" => main_summary' = summary]_vars

\* a returned set read by generate_brief that holds a missing entry and a
\* present entry under each of the three labels
C13_Witness ==
    /\ op = "generate_brief"
    /\ response.status = 200
    /\ Entry("Revenue CAGR (%)") = Missing
    /\ Entry("Cash").source = "Yahoo Finance"
    /\ Entry("SG&A").source = "Estimated"
    /\ Entry("Free Cash Flow").source = "Calculated"
    /\ main_summary = summary

(***************************************************************************)
(* Claims about the API-key gate                                           *)
(***************************************************************************)
\* the request carries an X-API-KEY header that is non-empty and equal to
\* the configured key
HasValidKey(req) ==
    /\ "X-API-KEY" \in DOMAIN req.headers
    /\ req.headers["X-API-KEY"].v # ""
    /\ req.headers["X-API-KEY"].v = API_KEY

\* C14: a request whose X-API-KEY header is absent, empty or different from
\* API_KEY is answered 401 Unauthorized without the view running (no file
\* saved, no analysis run); any other answer means the header was valid.
C14_ApiKeyGate ==
    [][/\ ~HasValidKey(request') =>
             /\ response' = Unauthorized
             /\ uploads' = uploads
             /\ main_summary' = NotRun
       /\ HasValidKey(request') => response'.status # 401]_vars

\* an upload of a.pdf under a wrong key, refused, with the folder left as
\* an earlier upload under the right key had it
C14_Witness ==
    /\ op = "upload_file"
    /\ "X-API-KEY" \in DOMAIN request.headers
    /\ request.headers["X-API-KEY"] \notin {Str(""), Str(API_KEY)}
    /\ "file" \in DOMAIN request.files
    /\ request.files["file"] = "a.pdf"
    /\ uploads = {"b.pdf"}
    /\ response = Unauthorized

====
